---- MODULE Spec2Model ----
(***************************************************************************)
(* Model of gql/renderer_dataclasses.py (DataclassesRenderer): the runtime *)
(* response-shaping functions simplify and relayify, the execute /         *)
(* execute_async entry points that render emits for every operation, and   *)
(* the order in which render emits the types of a ParsedQuery.             *)
(*                                                                         *)
(* JSON / Python values are tagged records [t |-> tag, v |-> payload]:     *)
(*   "null", "bool", "int", "str", "list" (a sequence), "obj" (a function  *)
(*   from key strings to values), and "raise" for an escaping exception.   *)
(***************************************************************************)
EXTENDS Integers, Sequences, FiniteSets, TLC

VARIABLES
    response,   \* shaping: the decoded response handed to the shaping function
    key,        \* shaping: the operation_name argument
    arg,        \* shaping: the first argument of the most recent shaping call
    result,     \* shaping: what the most recent shaping call returned or raised
    pc,         \* position: shaping call / entry-point step / render
    ex,         \* entry point: the locals of one execute / execute_async call
    ir,         \* render: the ParsedQuery being rendered
    out         \* render: the lines written to the buffer

vars == <<response, key, arg, result, pc, ex, ir, out>>

-----------------------------------------------------------------------------
(* Bounds *)

\* longest list of rows under a root field of the response
MaxItems == 2
\* largest aggregate count a response carries
MaxCount == 2

-----------------------------------------------------------------------------
(* Python values *)

Null == [t |-> "null", v |-> 0]
BoolV(b) == [t |-> "bool", v |-> b]
IntV(n) == [t |-> "int", v |-> n]
StrV(s) == [t |-> "str", v |-> s]
ListV(s) == [t |-> "list", v |-> s]
ObjV(f) == [t |-> "obj", v |-> f]
Raise(e) == [t |-> "raise", v |-> e]

EmptyDict == ObjV([k \in {} |-> Null])
EmptyList == ListV(<<>>)

IsRaise(x) == x.t = "raise"

\* s[i:] of a Python string
Tail_(s, i) == IF i > Len(s) THEN "" ELSE SubSeq(s, i, Len(s))

\* str.startswith
StartsWith(s, p) == Len(p) <= Len(s) /\ SubSeq(s, 1, Len(p)) = p

\* str.endswith
EndsWith(s, p) == Len(p) <= Len(s) /\ SubSeq(s, Len(s) - Len(p) + 1, Len(s)) = p

\* `sub in s` for two Python strings
IsSubstring(sub, s) ==
    \E i \in 1..(Len(s) + 1) : StartsWith(Tail_(s, i), sub)

\* str.replace(old, new): every non-overlapping occurrence, left to right
RECURSIVE Replace(_, _, _)
Replace(s, old, new) ==
    IF Len(s) < Len(old) \/ Len(old) = 0 THEN s
    ELSE IF StartsWith(s, old)
         THEN new \o Replace(Tail_(s, Len(old) + 1), old, new)
         ELSE SubSeq(s, 1, 1) \o Replace(Tail_(s, 2), old, new)

\* str(index) of a non-negative int
RECURSIVE IntToStr(_)
IntToStr(n) ==
    IF n < 10 THEN SubSeq("0123456789", n + 1, n + 1)
    ELSE IntToStr(n \div 10) \o SubSeq("0123456789", (n % 10) + 1, (n % 10) + 1)

\* bool(x)
Truthy(x) ==
    CASE x.t = "null" -> FALSE
      [] x.t = "bool" -> x.v
      [] x.t = "int"  -> x.v # 0
      [] x.t = "str"  -> x.v # ""
      [] x.t = "list" -> Len(x.v) # 0
      [] x.t = "obj"  -> DOMAIN x.v # {}
      [] OTHER        -> TRUE

\* whether `k in c` is defined (a container) rather than a TypeError
CanContain(c) == c.t \in {"obj", "list", "str"}

\* `k in c`: a key of a dict, an element of a list, a substring of a string
Contains(c, k) ==
    CASE c.t = "obj"  -> k \in DOMAIN c.v
      [] c.t = "list" -> \E i \in 1..Len(c.v) : c.v[i] = StrV(k)
      [] c.t = "str"  -> IsSubstring(k, c.v)
      [] OTHER        -> FALSE

\* o.get(k, d): only a dict has .get
Get(o, k, d) ==
    IF IsRaise(o) THEN o
    ELSE IF o.t # "obj" THEN Raise("AttributeError")
    ELSE IF k \in DOMAIN o.v THEN o.v[k] ELSE d

\* {**a, **b}: both must be mappings, b's entries win
Merge(a, b) ==
    IF a.t # "obj" \/ b.t # "obj" THEN Raise("TypeError")
    ELSE ObjV([k \in (DOMAIN a.v) \cup (DOMAIN b.v) |->
                 IF k \in DOMAIN b.v THEN b.v[k] ELSE a.v[k]])

\* the dict o after o.pop(k), k present
Pop(o, k) ==
    IF IsRaise(o) THEN o
    ELSE ObjV([x \in (DOMAIN o.v) \ {k} |-> o.v[x]])

\* whether `for item in x` is defined
Iterable(x) == x.t \in {"list", "obj", "str"}

\* the items `for item in x` yields: a list's elements, a string's characters,
\* a dict's keys (dict order is not represented: one enumeration of the keys)
Iterate(x) ==
    CASE x.t = "list" -> x.v
      [] x.t = "str"  -> [i \in 1..Len(x.v) |-> StrV(SubSeq(x.v, i, i))]
      [] x.t = "obj"  ->
            LET n == Cardinality(DOMAIN x.v)
                s == CHOOSE q \in [1..n -> DOMAIN x.v] :
                        \A i, j \in 1..n : i # j => q[i] # q[j]
            IN [i \in 1..n |-> StrV(s[i])]
      [] OTHER        -> <<>>

\* the > 0 test on a value: ints and bools compare, anything else is a TypeError
Comparable(x) == x.t \in {"int", "bool"}
Positive(x) == IF x.t = "bool" THEN x.v ELSE x.v > 0

-----------------------------------------------------------------------------
(* DataclassesRenderer.simplify / relayify *)

\* faulty variant: the "destroy" -> "delete" replacement is forgotten
NormalizeStoreOnly(operation_name) ==
    Replace(operation_name, "store", "insert")

\* "store" -> "insert", then "destroy" -> "delete"
NormalizeName(operation_name) ==
    Replace(Replace(operation_name, "store", "insert"), "destroy", "delete")

\* faulty variant: only the missing-"data" test, the "errors" test is forgotten
PassthroughDataOnly(r) ==
    IF ~CanContain(r) THEN Raise("TypeError")
    ELSE BoolV(~Contains(r, "data"))

\* faulty variant: only the "errors" test, the missing-"data" test is forgotten
PassthroughErrorsOnly(r) ==
    IF ~CanContain(r) THEN Raise("TypeError")
    ELSE IF ~Contains(r, "errors") THEN BoolV(FALSE)
    ELSE IF r.t # "obj" THEN Raise("TypeError")
    ELSE BoolV(Truthy(r.v["errors"]))

\* the guard shared by both functions: TRUE = return the response as-is,
\* FALSE = go on, a raise = the guard itself fails
Passthrough(r) ==
    IF ~CanContain(r) THEN Raise("TypeError")
    ELSE IF ~Contains(r, "data") THEN BoolV(TRUE)
    ELSE IF ~Contains(r, "errors") THEN BoolV(FALSE)
    ELSE IF r.t # "obj" THEN Raise("TypeError")
    ELSE BoolV(Truthy(r.v["errors"]))

\* response["data"]
DataOf(r) ==
    IF r.t # "obj" THEN Raise("TypeError")
    ELSE IF "data" \notin DOMAIN r.v THEN Raise("KeyError")
    ELSE r.v["data"]

\* faulty variant: the by-pk value is merged without the None test, as relayify does
simplifyNoNoneTest(r, operation_name) ==
    LET guard == Passthrough(r)
        name  == NormalizeName(operation_name)
        data  == DataOf(r)
        pk    == name \o "_by_pk"
    IN  IF IsRaise(guard) THEN guard
        ELSE IF guard.v THEN r
        ELSE IF IsRaise(data) THEN data
        ELSE IF ~CanContain(data) THEN Raise("TypeError")
        ELSE IF Contains(data, pk)
             THEN IF data.t # "obj" THEN Raise("TypeError")
                  ELSE Pop(Merge(data, data.v[pk]), pk)
             ELSE Get(data, name, EmptyList)

simplify(r, operation_name) ==
    LET guard == Passthrough(r)
        name  == NormalizeName(operation_name)
        data  == DataOf(r)
        pk    == name \o "_by_pk"
    IN  IF IsRaise(guard) THEN guard
        ELSE IF guard.v THEN r
        ELSE IF IsRaise(data) THEN data
        ELSE IF ~CanContain(data) THEN Raise("TypeError")
        ELSE IF Contains(data, pk)
             THEN IF data.t # "obj" THEN Raise("TypeError")
                  ELSE IF data.v[pk] = Null THEN EmptyDict
                  ELSE Pop(Merge(data, data.v[pk]), pk)
             ELSE Get(data, name, EmptyList)

\* faulty variant: enumerate(...) without start=1, cursors count from 0
RelayEnvelopeFromZero(total_count, items) ==
    ObjV([totalCount |-> total_count,
          pageInfo   |-> ObjV([hasNextPage |-> BoolV(FALSE), endCursor |-> Null]),
          edges      |-> ListV([i \in 1..Len(items) |->
                            ObjV([cursor |-> StrV(IntToStr(i - 1)), node |-> items[i]])])])

\* the envelope built when the aggregate count is positive
RelayEnvelope(total_count, items) ==
    ObjV([totalCount |-> total_count,
          pageInfo   |-> ObjV([hasNextPage |-> BoolV(FALSE), endCursor |-> Null]),
          edges      |-> ListV([i \in 1..Len(items) |->
                            ObjV([cursor |-> StrV(IntToStr(i)), node |-> items[i]])])])

\* relayify after the count branch did not return: by-pk merge, then the
\* more-than-one-key test
RelayFallthrough(data, name) ==
    LET pk     == name \o "_by_pk"
        merged == IF Contains(data, pk)
                  THEN Pop(Merge(data, data.v[pk]), pk)
                  ELSE data
    IN  IF IsRaise(merged) THEN merged
        ELSE IF Cardinality(DOMAIN merged.v) > 1 THEN merged
        ELSE Get(merged, name, EmptyList)

relayify(r, operation_name) ==
    LET guard == Passthrough(r)
        name  == NormalizeName(operation_name)
        data  == DataOf(r)
        total_count ==
            Get(Get(Get(data, name \o "_aggregate", EmptyDict),
                    "aggregate", EmptyDict), "count", Null)
        items == Get(data, name, EmptyList)
    IN  IF IsRaise(guard) THEN guard
        ELSE IF guard.v THEN r
        ELSE IF IsRaise(data) THEN data
        ELSE IF IsRaise(total_count) THEN total_count
        ELSE IF total_count # Null
             THEN IF ~Comparable(total_count) THEN Raise("TypeError")
                  ELSE IF Positive(total_count)
                       THEN IF ~Iterable(items) THEN Raise("TypeError")
                            ELSE RelayEnvelope(total_count, Iterate(items))
                       ELSE RelayFallthrough(data, name)
             ELSE RelayFallthrough(data, name)

-----------------------------------------------------------------------------
(* The responses the shaping functions are applied to *)

Absent == [t |-> "absent", v |-> 0]

\* the dict holding the <<key, value>> pairs of ps whose value is present
MkObj(ps) ==
    LET present == {p \in ps : p[2] # Absent}
    IN  ObjV([k \in {p[1] : p \in present} |->
                (CHOOSE p \in present : p[1] = k)[2]])

SeqsUpTo(S, n) == UNION {[1..m -> S] : m \in 0..n}

Row(n) == ObjV([id |-> IntV(n)])

Rows == {Row(1), Row(2)}

\* values of data["<root>"]: row lists, a list of scalars, and malformed ones
ItemValues ==
    {ListV(s) : s \in SeqsUpTo(Rows, MaxItems)}
        \cup {ListV(<<StrV("data")>>), Null, IntV(7)}

\* values of data["<root>_by_pk"]: not found, a row, rows whose columns are
\* named like a root field or like "data", and a malformed one
ByPkValues ==
    {Null, Row(1),
     ObjV([id |-> IntV(1), item |-> StrV("x")]),
     ObjV([id |-> IntV(1), data |-> Row(2)]),
     IntV(7)}

Counts == {IntV(n) : n \in 0..MaxCount} \cup {Null, StrV("2")}

\* values of data["<root>_aggregate"], well-formed and malformed
AggValues ==
    {Null, EmptyDict, IntV(7),
     ObjV([aggregate |-> Null]), ObjV([aggregate |-> EmptyDict])}
        \cup {ObjV([aggregate |-> ObjV([count |-> c])]) : c \in Counts}

\* root field names the server answers with
Roots == {"item", "insert_item", "delete_item"}

\* operation keys handed to the shaping functions
Keys == {"item", "store_item", "insert_item", "destroy_item"}

DataObjs ==
    {MkObj({<<root, i>>, <<root \o "_by_pk", b>>, <<root \o "_aggregate", a>>}) :
        root \in Roots,
        i \in ItemValues \cup {Absent},
        b \in ByPkValues \cup {Absent},
        a \in AggValues \cup {Absent}}

DataValues == DataObjs \cup {Null, IntV(7), Absent}

ErrorValues ==
    {Absent, Null, EmptyList, ListV(<<ObjV([message |-> StrV("boom")])>>)}

\* decoded responses: dicts with or without "data" and "errors"
Responses ==
    {MkObj({<<"data", d>>, <<"errors", e>>}) : d \in DataValues, e \in ErrorValues}

\* shapes that are not responses: rows and lists as simplify returns them
PlainShapes ==
    {Row(1), ObjV([id |-> IntV(1), data |-> Row(2)]),
     ListV(<<Row(1), Row(2)>>), ListV(<<StrV("data")>>), EmptyList}

-----------------------------------------------------------------------------
(* Specification ShapeSpec: the shaping functions applied to a response *)

NoCall == [step |-> "idle"]
NoQuery == [enums |-> <<>>, objects |-> <<>>]

ShapeInit ==
    /\ response \in Responses \cup PlainShapes
    /\ key \in Keys
    /\ arg = Null
    /\ result = Null
    /\ pc = "ready"
    /\ ex = NoCall
    /\ ir = NoQuery
    /\ out = <<>>

Simplify ==
    /\ pc = "ready"
    /\ arg' = response
    /\ result' = simplify(response, key)
    /\ pc' = "simplified"
    /\ UNCHANGED <<response, key, ex, ir, out>>

Relayify ==
    /\ pc = "ready"
    /\ arg' = response
    /\ result' = relayify(response, key)
    /\ pc' = "relayified"
    /\ UNCHANGED <<response, key, ex, ir, out>>

\* simplify applied again to the list or dict it returned
Resimplify ==
    /\ pc = "simplified"
    /\ result.t \in {"list", "obj"}
    /\ arg' = result
    /\ result' = simplify(result, key)
    /\ pc' = "resimplified"
    /\ UNCHANGED <<response, key, ex, ir, out>>

ShapeNext == Simplify \/ Relayify \/ Resimplify

ShapeSpec == ShapeInit /\ [][ShapeNext]_vars

-----------------------------------------------------------------------------
(* Claims about simplify and relayify, checked under ShapeSpec *)

\* the response is a dict whose "errors" entry is a non-empty collection
ErrorsNonEmpty(r) ==
    /\ "errors" \in DOMAIN r.v
    /\ \/ r.v["errors"].t = "list" /\ r.v["errors"].v # <<>>
       \/ r.v["errors"].t = "obj" /\ DOMAIN r.v["errors"].v # {}

\* a shaping function was applied to a decoded response (a dict)
ShapedResponse == pc \in {"simplified", "relayified"} /\ arg.t = "obj"

\* the response has an object under "data" and no non-empty errors
HasData(r) ==
    /\ r.t = "obj"
    /\ "data" \in DOMAIN r.v
    /\ ~ErrorsNonEmpty(r)
    /\ r.v["data"].t = "obj"

\* the normalized key, tabulated for the keys of the model
ExpectedKey(k) ==
    CASE k = "store_item"   -> "insert_item"
      [] k = "destroy_item" -> "delete_item"
      [] OTHER              -> k

\* C1: when "data" is absent, or "errors" is present and non-empty, simplify
\* and relayify both return the response itself, whatever the key.
C1_ErrorPassthrough ==
    (ShapedResponse /\ ("data" \notin DOMAIN arg.v \/ ErrorsNonEmpty(arg)))
        => result = arg

C1_Witness ==
    /\ pc = "relayified"
    /\ arg.t = "obj"
    /\ "data" \in DOMAIN arg.v
    /\ ErrorsNonEmpty(arg)
    /\ arg.v["data"].t = "obj"
    /\ "item_aggregate" \in DOMAIN arg.v["data"].v
    /\ key = "item"
    /\ result = arg

\* C2: on a response with data and no non-empty errors, simplify works on the
\* normalized key k: "<k>_by_pk" null gives {}; "<k>_by_pk" an object gives a
\* copy of data with the object's fields merged in and "<k>_by_pk" removed;
\* otherwise data[k] when k is present and [] when it is not.
C2_SimplifyShape ==
    (pc = "simplified" /\ HasData(arg)) =>
        LET k  == ExpectedKey(key)
            d  == arg.v["data"].v
            pk == k \o "_by_pk"
        IN  IF pk \in DOMAIN d
            THEN /\ d[pk] = Null => result = EmptyDict
                 /\ d[pk].t = "obj" =>
                      /\ result.t = "obj"
                      /\ DOMAIN result.v = ((DOMAIN d) \cup (DOMAIN d[pk].v)) \ {pk}
                      /\ \A x \in DOMAIN result.v :
                            result.v[x] = IF x \in DOMAIN d[pk].v
                                          THEN d[pk].v[x] ELSE d[x]
            ELSE result = IF k \in DOMAIN d THEN d[k] ELSE EmptyList

C2_Witness ==
    /\ pc = "simplified"
    /\ HasData(arg)
    /\ key = "store_item"
    /\ {"insert_item", "insert_item_by_pk"} \subseteq DOMAIN arg.v["data"].v
    /\ arg.v["data"].v["insert_item_by_pk"].t = "obj"
    /\ result.t = "obj"
    /\ DOMAIN result.v = {"id", "item", "insert_item"}

\* the aggregate count of the response for key k, Absent when the path
\* "<k>_aggregate".aggregate.count does not lead through objects to a value
CountOf(r, k) ==
    LET d == r.v["data"].v
        a == k \o "_aggregate"
    IN  IF a \in DOMAIN d /\ d[a].t = "obj" /\ "aggregate" \in DOMAIN d[a].v
           /\ d[a].v["aggregate"].t = "obj"
           /\ "count" \in DOMAIN d[a].v["aggregate"].v
        THEN d[a].v["aggregate"].v["count"]
        ELSE Absent

\* the rows under data[k]: a list, or no entry at all
RowsOf(r, k) ==
    LET d == r.v["data"].v
    IN  IF k \in DOMAIN d THEN d[k] ELSE EmptyList

\* decimal cursors, tabulated
CursorText(i) == <<"1", "2", "3", "4", "5", "6", "7", "8", "9", "10">>[i]

ExpectedPageInfo == ObjV([hasNextPage |-> BoolV(FALSE), endCursor |-> Null])

\* C3: with an aggregate count > 0, relayify returns exactly {totalCount,
\* pageInfo: {hasNextPage: false, endCursor: null}, edges}, edges holding one
\* {cursor, node} per item of data[key], in order, the i-th with cursor the
\* string of i and node the i-th item.
C3_RelayEnvelope ==
    (/\ pc = "relayified"
     /\ HasData(arg)
     /\ CountOf(arg, ExpectedKey(key)).t = "int"
     /\ CountOf(arg, ExpectedKey(key)).v > 0
     /\ RowsOf(arg, ExpectedKey(key)).t = "list") =>
        LET rows == RowsOf(arg, ExpectedKey(key)).v
        IN  /\ result.t = "obj"
            /\ DOMAIN result.v = {"totalCount", "pageInfo", "edges"}
            /\ result.v["totalCount"] = CountOf(arg, ExpectedKey(key))
            /\ result.v["pageInfo"] = ExpectedPageInfo
            /\ result.v["edges"].t = "list"
            /\ Len(result.v["edges"].v) = Len(rows)
            /\ \A i \in 1..Len(rows) :
                  result.v["edges"].v[i] =
                      ObjV([cursor |-> StrV(CursorText(i)), node |-> rows[i]])

C3_Witness ==
    /\ pc = "relayified"
    /\ arg = ObjV([data |-> ObjV([
                item_aggregate |-> ObjV([aggregate |-> ObjV([count |-> IntV(2)])]),
                item |-> ListV(<<Row(1), Row(2)>>)])])
    /\ key = "item"
    /\ result = ObjV([totalCount |-> IntV(2),
                      pageInfo |-> ExpectedPageInfo,
                      edges |-> ListV(<<
                          ObjV([cursor |-> StrV("1"), node |-> Row(1)]),
                          ObjV([cursor |-> StrV("2"), node |-> Row(2)])>>)])

\* C4: with an aggregate count equal to 0, relayify returns the envelope
\* {totalCount: 0, pageInfo: {hasNextPage: false, endCursor: null}}, without
\* an edges key.
C4_ZeroCountEnvelope ==
    (/\ pc = "relayified"
     /\ HasData(arg)
     /\ CountOf(arg, ExpectedKey(key)) = IntV(0)) =>
        result = ObjV([totalCount |-> IntV(0), pageInfo |-> ExpectedPageInfo])

\* C5: simplify and relayify are total: applied to any decoded response,
\* malformed ones included, each returns a value and never raises.
C5_Total == ShapedResponse => ~IsRaise(result)

\* the response of the scenario: {"data": {"insert_item_by_pk": null}}
NotFoundResponse == ObjV([data |-> ObjV([insert_item_by_pk |-> Null])])

\* C6 as stated: for {"data": {"insert_item_by_pk": null}} and the key "item",
\* simplify returns {}.
C6_Original ==
    (pc = "simplified" /\ arg = NotFoundResponse /\ key = "item")
        => result = EmptyDict

\* C6 amended: for {"data": {"insert_item_by_pk": null}}, simplify returns the
\* empty list [] for the key "item" and the empty object {} for the keys
\* "insert_item" and "store_item".
C6_NotFound ==
    (pc = "simplified" /\ arg = NotFoundResponse) =>
        /\ key = "item" => result = EmptyList
        /\ key \in {"insert_item", "store_item"} => result = EmptyDict

C6_Witness ==
    /\ pc = "simplified"
    /\ arg = NotFoundResponse
    /\ key = "item"
    /\ result = EmptyList

\* a list or dict with no "errors" key and no key ending in "_by_pk" or
\* "_aggregate"
SimplifiedShape(x) ==
    \/ x.t = "list"
    \/ /\ x.t = "obj"
       /\ "errors" \notin DOMAIN x.v
       /\ \A k \in DOMAIN x.v : ~EndsWith(k, "_by_pk") /\ ~EndsWith(k, "_aggregate")

\* x has no "data" key (a dict) and no element "data" (a list)
NoData(x) ==
    /\ x.t = "obj" => "data" \notin DOMAIN x.v
    /\ x.t = "list" => \A i \in 1..Len(x.v) : x.v[i] # StrV("data")

SimplifyApplied == pc \in {"simplified", "resimplified"}

\* C7 as stated: simplify(x, key) = x for every list or dict x with no
\* "errors" key and no key ending in "_by_pk" or "_aggregate".
C7_Original == (SimplifyApplied /\ SimplifiedShape(arg)) => result = arg

\* C7 amended: simplify(x, key) = x for every such x that also has no "data"
\* key (a dict) and no element "data" (a list); so simplify applied to its own
\* result returns that result whenever the result is such a shape.
C7_Idempotent ==
    (SimplifyApplied /\ SimplifiedShape(arg) /\ NoData(arg)) => result = arg

C7_Witness ==
    /\ pc = "resimplified"
    /\ arg = ListV(<<Row(1), Row(2)>>)
    /\ response.t = "obj"
    /\ "data" \in DOMAIN response.v
    /\ result = arg

-----------------------------------------------------------------------------
(* The execute / execute_async entry points emitted for an operation *)

UpperLetters == "ABCDEFGHIJKLMNOPQRSTUVWXYZ"
LowerLetters == "abcdefghijklmnopqrstuvwxyz"

\* position of the one-character string c in UpperLetters, 0 when not there
UpperIndex(c) ==
    IF \E i \in 1..Len(UpperLetters) : SubSeq(UpperLetters, i, i) = c
    THEN CHOOSE i \in 1..Len(UpperLetters) : SubSeq(UpperLetters, i, i) = c
    ELSE 0

\* re.sub(r'(?<!^)(?=[A-Z])', '_', s).lower(): an underscore before every
\* upper-case letter that is not the first character, then lower case
RECURSIVE SnakeFrom(_, _)
SnakeFrom(s, i) ==
    IF i > Len(s) THEN ""
    ELSE LET c == SubSeq(s, i, i)
             u == UpperIndex(c)
         IN  (IF u # 0 /\ i > 1 THEN "_" ELSE "")
                \o (IF u # 0 THEN SubSeq(LowerLetters, u, u) ELSE c)
                \o SnakeFrom(s, i + 1)

\* operation_name[:-1] if operation_name.endswith('s') else operation_name
Singular(operation_name) ==
    IF EndsWith(operation_name, "s")
    THEN (IF Len(operation_name) = 1 THEN ""
          ELSE SubSeq(operation_name, 1, Len(operation_name) - 1))
    ELSE operation_name

\* cls.__name__ -> snake_case_str
DeriveKey(cls_name) ==
    SnakeFrom(Singular(Replace(Replace(cls_name, "find", ""), "get", "")), 1)

\* the operation's variables: name, type and default_value of the IR
OpVariables ==
    <<[name |-> "id", type |-> "int", default_value |-> Null],
      [name |-> "q", type |-> "str", default_value |-> Null],
      [name |-> "limit", type |-> "int", default_value |-> IntV(10)]>>

\* the default written into the variables dict: '""' for a str without one
DefaultOf(x) ==
    IF x.type = "str" /\ x.default_value = Null THEN StrV("") ELSE x.default_value

\* variables = {'<name>': <name> if <name> is not None else <defval>, ...}
BuildVariables(args) ==
    ObjV([n \in {OpVariables[i].name : i \in 1..Len(OpVariables)} |->
            LET x == CHOOSE y \in {OpVariables[i] : i \in 1..Len(OpVariables)} :
                        y.name = n
            IN  IF args[n] # Null THEN args[n] ELSE DefaultOf(x)])

\* cls.from_json(response_text).to_dict(): the operation dataclass has the
\* fields data and errors, both None by default, so both keys are always there
Deserialize(reply) ==
    ObjV([data   |-> Get(reply, "data", Null),
          errors |-> Get(reply, "errors", Null)])

\* class names of generated operations
ClassNames == {"findItems", "getItem", "Items", "StoreItem", "destroyItem"}

\* argument values a caller passes: None or a value
ArgSets ==
    {[id |-> a, q |-> b, limit |-> Null] : a \in {Null, IntV(1)}, b \in {Null, StrV("x")}}

\* what the endpoint answers
ReplyData ==
    {Absent, Null}
        \cup {MkObj({<<root, i>>, <<root \o "_by_pk", b>>, <<root \o "_aggregate", a>>}) :
                root \in {"item", "insert_item"},
                i \in {Absent, ListV(<<Row(1)>>)},
                b \in {Absent, Null, Row(1)},
                a \in {Absent} \cup {ObjV([aggregate |-> ObjV([count |-> IntV(n)])]) :
                                        n \in 0..1}}

Replies ==
    {MkObj({<<"data", d>>, <<"errors", e>>}) : d \in ReplyData, e \in ErrorValues}

\* the statements of an entry point, in program order
Steps ==
    <<"client", "variables", "dispatch", "deserialize", "check_errors",
      "derive_key", "shape">>

ExecInit ==
    /\ pc = "start"
    /\ ex \in {[entry |-> e, cls |-> c, standard |-> s, args |-> a,
                variables |-> Null, trace |-> <<>>, shaped |-> <<>>] :
                  e \in {"execute", "execute_async"}, c \in ClassNames,
                  s \in BOOLEAN, a \in ArgSets}
    /\ response = Null
    /\ key = ""
    /\ arg = Null
    /\ result = Null
    /\ ir = NoQuery
    /\ out = <<>>

Did(step) == [ex EXCEPT !.trace = Append(@, step)]

\* client = Client(endpoint) / AsyncIOClient(endpoint)
MakeClient ==
    /\ pc = "start"
    /\ pc' = "client"
    /\ ex' = Did("client")
    /\ UNCHANGED <<response, key, arg, result, ir, out>>

\* variables = {...}
MakeVariables ==
    /\ pc = "client"
    /\ pc' = "variables"
    /\ ex' = [Did("variables") EXCEPT !.variables = BuildVariables(ex.args)]
    /\ UNCHANGED <<response, key, arg, result, ir, out>>

\* execute: response_text = client.call(...), which returns or raises
Call ==
    /\ pc = "variables"
    /\ ex.entry = "execute"
    /\ ex' = Did("dispatch")
    /\ \/ \E reply \in Replies :
            /\ response' = reply
            /\ pc' = "called"
            /\ UNCHANGED result
       \/ /\ result' = Raise("TransportError")
          /\ pc' = "failed"
          /\ UNCHANGED response
    /\ UNCHANGED <<key, arg, ir, out>>

\* execute_async: await client.call(...) suspends the coroutine
CallAsync ==
    /\ pc = "variables"
    /\ ex.entry = "execute_async"
    /\ ex' = Did("dispatch")
    /\ pc' = "awaiting"
    /\ UNCHANGED <<response, key, arg, result, ir, out>>

\* execute_async: the awaited call completes or raises
Resume ==
    /\ pc = "awaiting"
    /\ \/ \E reply \in Replies :
            /\ response' = reply
            /\ pc' = "called"
            /\ UNCHANGED result
       \/ /\ result' = Raise("TransportError")
          /\ pc' = "failed"
          /\ UNCHANGED response
    /\ UNCHANGED <<key, arg, ex, ir, out>>

\* data = cls.from_json(response_text).to_dict()
FromJson ==
    /\ pc = "called"
    /\ arg' = Deserialize(response)
    /\ pc' = "deserialized"
    /\ ex' = Did("deserialize")
    /\ UNCHANGED <<response, key, result, ir, out>>

\* faulty variant: the errors test is missing, the payload is always shaped
CheckErrorsSkipped ==
    /\ pc = "deserialized"
    /\ ex' = Did("check_errors")
    /\ pc' = "checked"
    /\ UNCHANGED <<response, key, arg, result, ir, out>>

\* if data.get('errors'): raise CantProceed(data['errors'])
CheckErrors ==
    /\ pc = "deserialized"
    /\ ex' = Did("check_errors")
    /\ IF Truthy(Get(arg, "errors", Null))
       THEN /\ result' = Raise("CantProceed")
            /\ pc' = "failed"
       ELSE /\ pc' = "checked"
            /\ UNCHANGED result
    /\ UNCHANGED <<response, key, arg, ir, out>>

\* operation_name, singular_str, snake_case_str
ComputeKey ==
    /\ pc = "checked"
    /\ key' = DeriveKey(ex.cls)
    /\ pc' = "derived"
    /\ ex' = Did("derive_key")
    /\ UNCHANGED <<response, arg, result, ir, out>>

\* which shaping function the return statement calls
ShaperFor(standard) == IF standard THEN "relayify" ELSE "simplify"

\* the call of the shaping function named fn
ApplyShaper(fn, data, snake_case_str) ==
    IF fn = "relayify" THEN relayify(data, snake_case_str)
    ELSE simplify(data, snake_case_str)

\* return relayify(data, snake_case_str) if auth.is_standard_call()
\*        else simplify(data, snake_case_str)
Shape ==
    /\ pc = "derived"
    /\ LET fn == ShaperFor(ex.standard)
           r  == ApplyShaper(fn, arg, key)
       IN  /\ ex' = [Did("shape") EXCEPT !.shaped = Append(@, fn)]
           /\ result' = r
           /\ pc' = IF IsRaise(r) THEN "failed" ELSE "returned"
    /\ UNCHANGED <<response, key, arg, ir, out>>

ExecNext ==
    \/ MakeClient
    \/ MakeVariables
    \/ Call
    \/ CallAsync
    \/ Resume
    \/ FromJson
    \/ CheckErrors
    \/ ComputeKey
    \/ Shape

ExecSpec == ExecInit /\ [][ExecNext]_vars

(* Claims about the entry points, checked under ExecSpec *)

\* the call is over: it returned or an exception left it
Finished == pc \in {"returned", "failed"}

\* the payload has been deserialized
HasPayload == \E i \in 1..Len(ex.trace) : ex.trace[i] = "deserialize"

\* the steps taken so far are the first steps of the program order
InOrder ==
    /\ Len(ex.trace) <= Len(Steps)
    /\ \A i \in 1..Len(ex.trace) : ex.trace[i] = Steps[i]

\* C8: in execute and execute_async the steps run in the same order (build
\* variables, dispatch, deserialize, check errors, derive key, shape); a
\* payload with non-empty errors makes the call fail with an error before any
\* shaping function is invoked, and nothing is returned; otherwise exactly one
\* shaping function is invoked, relayify for a standard call and simplify
\* otherwise, and the call ends with what that function yields for the
\* payload and the derived key.
C8_EntryPoint ==
    /\ InOrder
    /\ (HasPayload /\ Truthy(arg.v["errors"])) =>
          /\ ex.shaped = <<>>
          /\ Finished => (pc = "failed" /\ result = Raise("CantProceed"))
    /\ (HasPayload /\ ~Truthy(arg.v["errors"]) /\ Finished) =>
          /\ ex.trace = Steps
          /\ ex.shaped = <<IF ex.standard THEN "relayify" ELSE "simplify">>
          /\ result = IF ex.standard THEN relayify(arg, key) ELSE simplify(arg, key)
          /\ (pc = "returned") = ~IsRaise(result)

C8_Witness ==
    /\ pc = "returned"
    /\ ex.entry = "execute_async"
    /\ ex.standard
    /\ ex.trace = Steps
    /\ ex.shaped = <<"relayify">>
    /\ arg.v["errors"] = EmptyList
    /\ result.t = "obj"
    /\ "edges" \in DOMAIN result.v

-----------------------------------------------------------------------------
(* The intermediate representation render walks (gql.query_parser) *)

ParsedField(name, type, nullable, default_value) ==
    [name |-> name, type |-> type, nullable |-> nullable,
     default_value |-> default_value]

ParsedObject(name, parents, children, fields) ==
    [kind |-> "ParsedObject", name |-> name, parents |-> parents,
     children |-> children, fields |-> fields]

ParsedOperation(name, variables, children) ==
    [kind |-> "ParsedOperation", name |-> name, variables |-> variables,
     children |-> children]

ParsedEnum(name, values) == [name |-> name, values |-> values]

ParsedQuery(query, enums, objects) ==
    [query |-> query, enums |-> enums, objects |-> objects]

\* isinstance(obj, ParsedObject) / isinstance(obj, ParsedOperation)
IsParsedObject(obj) == obj.kind = "ParsedObject"
IsParsedOperation(obj) == obj.kind = "ParsedOperation"

\* the renderer's configuration
Config == [endpoint |-> "http://localhost:4000", custom_header |-> "# noqa\nimport os"]

-----------------------------------------------------------------------------
(* CodeChunk: the buffer of indented lines *)

\* one buffer.write(text) at block level ind; role and owner record which
\* write statement produced the line and for which IR node
Line(ind, text, role, owner) ==
    [ind |-> ind, text |-> text, role |-> role, owner |-> owner]

\* a sequence of unowned lines at one level
Lines(ind, texts, role) == [i \in 1..Len(texts) |-> Line(ind, texts[i], role, "")]

RECURSIVE Flatten(_)
Flatten(ss) == IF ss = <<>> THEN <<>> ELSE Head(ss) \o Flatten(Tail(ss))

\* sep.join(parts)
RECURSIVE Join(_, _)
Join(parts, sep) ==
    IF parts = <<>> THEN ""
    ELSE IF Len(parts) = 1 THEN parts[1]
    ELSE parts[1] \o sep \o Join(Tail(parts), sep)

\* s.split(sep) for a one-character separator
RECURSIVE SplitFrom(_, _, _, _)
SplitFrom(s, sep, i, cur) ==
    IF i > Len(s) THEN <<cur>>
    ELSE IF SubSeq(s, i, i) = sep THEN <<cur>> \o SplitFrom(s, sep, i + 1, "")
    ELSE SplitFrom(s, sep, i + 1, cur \o SubSeq(s, i, i))

Split(s, sep) == SplitFrom(s, sep, 1, "")

\* how an f-string formats a value
Format(x) ==
    CASE x.t = "null" -> "None"
      [] x.t = "int"  -> IntToStr(x.v)
      [] x.t = "bool" -> IF x.v THEN "True" ELSE "False"
      [] OTHER        -> x.v

\* sorted(s, key=...): stable; keys[i] is the key of s[i]
Sorted(s, keys) ==
    LET n == Len(s)
        Before(j, i) == keys[j] < keys[i] \/ (keys[j] = keys[i] /\ j < i)
        rank(i) == Cardinality({j \in 1..n : Before(j, i)}) + 1
    IN  [r \in 1..n |-> s[CHOOSE i \in 1..n : rank(i) = r]]

-----------------------------------------------------------------------------
(* DataclassesRenderer.render and the methods it calls *)

\* key=lambda obj: 1 if isinstance(obj, ParsedOperation) else 0
ObjectKey(obj) == IF IsParsedOperation(obj) THEN 1 ELSE 0

\* key=lambda f: (f.type != "DateTime", f.nullable): tuples compare
\* lexicographically and False < True, which is the order of 2 * first + second
FieldKey(f) ==
    (IF f.type # "DateTime" THEN 2 ELSE 0) + (IF f.nullable THEN 1 ELSE 0)

\* faulty variant: the objects are rendered in IR order, the sort is forgotten
ObjectsUnsorted(objects) == objects

\* sorted(parsed_query.objects, key=...)
SortObjects(objects) ==
    Sorted(objects, [i \in 1..Len(objects) |-> ObjectKey(objects[i])])
\* faulty variant: the key forgets the DateTime component
SortFieldsByNullable(fields) ==
    Sorted(fields, [i \in 1..Len(fields) |-> IF fields[i].nullable THEN 1 ELSE 0])

\* sorted(obj.fields, key=...)
SortFields(fields) ==
    Sorted(fields, [i \in 1..Len(fields) |-> FieldKey(fields[i])])

RenderPreamble ==
    Lines(0, <<"# AUTOGENERATED file. Do not Change!",
               "import re",
               "from functools import partial",
               "from typing import Any, Callable, Mapping, List",
               "from enum import Enum",
               "from dataclasses import dataclass, field",
               "from dataclasses_json import dataclass_json",
               "from gql.clients import Client, AsyncIOClient",
               "from gql.renderer_dataclasses import DataclassesRenderer",
               "from app.facades import auth",
               "from dateutil import parser",
               "from app.exceptions import CantProceed",
               "">>, "preamble")
    \o (IF Config.custom_header # ""
        THEN Lines(0, Split(Config.custom_header, "\n"), "custom_header")
        ELSE <<>>)
    \o Lines(0, <<"">>, "preamble")

RenderDatetimeField ==
    Lines(0, <<"",
               "from datetime import datetime",
               "from marshmallow import fields as marshmallow_fields",
               "def custom_datetime_encoder(dt):",
               "    return dt.isoformat() if dt is not None else None",
               "DATETIME_FIELD = field(metadata={'dataclasses_json': {'encoder': custom_datetime_encoder, 'decoder': parser.parse, 'mm_field': marshmallow_fields.DateTime(format='iso')}})",
               "">>, "datetime_field")

RenderEnumField ==
    Lines(0, <<"def enum_field(enum_type):">>, "enum_field")
    \o Lines(1, <<"def encode_enum(value):">>, "enum_field")
    \o Lines(2, <<"return value.value">>, "enum_field")
    \o Lines(1, <<"", "def decode_enum(t, value):">>, "enum_field")
    \o Lines(2, <<"return t(value)">>, "enum_field")
    \o Lines(1, <<"",
                  "return field(metadata={'dataclasses_json': {'encoder': encode_enum, 'decoder': partial(decode_enum, enum_type)}})",
                  "">>, "enum_field")

\* a str value is quoted, any other is formatted as it is
EnumValueText(value) ==
    IF value.t = "str" THEN "'" \o value.v \o "'" ELSE Format(value)

RenderEnum(enum) ==
    <<Line(0, "class " \o enum.name \o "(Enum):", "enum_open", enum.name)>>
    \o [i \in 1..Len(enum.values) |->
          Line(1, enum.values[i][1] \o " = " \o EnumValueText(enum.values[i][2]),
               "enum_value", enum.name)]
    \o <<Line(0, "", "enum_close", enum.name)>>

\* faulty variant: the nullable test is made last, so that it overrides the
\* DateTime suffix as well
FieldSuffixNullableLast(parsed_query, field) ==
    LET is_enum == \E i \in 1..Len(parsed_query.enums) :
                      parsed_query.enums[i].name = field.type
        s1 == IF is_enum THEN "= enum_field(" \o field.type \o ")" ELSE ""
        s2 == IF field.type = "DateTime" THEN "= DATETIME_FIELD" ELSE s1
    IN  IF field.nullable THEN "= " \o Format(field.default_value) ELSE s2

\* the suffix and the type written for a field
FieldSuffix(parsed_query, field) ==
    LET is_enum == \E i \in 1..Len(parsed_query.enums) :
                      parsed_query.enums[i].name = field.type
        s1 == IF is_enum THEN "= enum_field(" \o field.type \o ")" ELSE ""
        s2 == IF field.nullable THEN "= " \o Format(field.default_value) ELSE s1
        s3 == IF field.type = "DateTime" THEN "= DATETIME_FIELD" ELSE s2
        field_type == IF field.type = "DateTime" THEN "datetime" ELSE field.type
    IN  IF field_type \in {"List[user_amazon_association]",
                           "List[user_ebay_association]"}
        THEN "= " \o Format(field.default_value)
        ELSE s3

FieldType(field) == IF field.type = "DateTime" THEN "datetime" ELSE field.type

RenderField(parsed_query, field, ind, owner) ==
    <<Line(ind,
           field.name \o ": " \o FieldType(field) \o " " \o FieldSuffix(parsed_query, field),
           "field", owner)>>

\* (Base1, Base2) after the class name, nothing without parents
ClassParents(obj) ==
    IF obj.parents = <<>> THEN "" ELSE "(" \o Join(obj.parents, ", ") \o ")"

RECURSIVE RenderObject(_, _, _)
RenderObject(parsed_query, obj, ind) ==
    <<Line(ind, "@dataclass_json", "decorator", obj.name),
      Line(ind, "@dataclass", "decorator", obj.name),
      Line(ind, "class " \o obj.name \o ClassParents(obj) \o ":", "open", obj.name)>>
    \o Flatten([i \in 1..Len(obj.children) |->
                  RenderObject(parsed_query, obj.children[i], ind + 1)])
    \o Flatten([i \in 1..Len(obj.fields) |->
                  RenderField(parsed_query, SortFields(obj.fields)[i], ind + 1, obj.name)])
    \o (IF obj.children = <<>> /\ obj.fields = <<>>
        THEN <<Line(ind + 1, "pass", "pass", obj.name)>>
        ELSE <<>>)
    \o <<Line(ind, "", "close", obj.name)>>

\* "<name>=None, " for every variable
VarsArgsStr(variables) ==
    LET vars_args_str == Join([i \in 1..Len(variables) |-> variables[i].name \o "=None"], ", ")
    IN  IF vars_args_str # "" THEN vars_args_str \o ", " ELSE ""

\* the default a variable's dict entry falls back to, as text
DefvalText(x) ==
    IF x.type = "str" /\ x.default_value = Null THEN "\"\"" ELSE Format(x.default_value)

VariablesDictStr(variables) ==
    Join([i \in 1..Len(variables) |->
            "'" \o variables[i].name \o "': " \o variables[i].name \o " if "
                \o variables[i].name \o " is not None else " \o DefvalText(variables[i])],
         ", ")

CallbackParam ==
    "on_before_callback: Callable[[Mapping[str, str], Mapping[str, str]], None] = None"

\* the body both entry points share after the client is made
EntryBody(parsed_op, ind, call) ==
    Lines(ind, <<"variables = {" \o VariablesDictStr(parsed_op.variables) \o "}",
                 call,
                 "data = cls.from_json(response_text).to_dict()",
                 "if data.get('errors'):",
                 "    raise CantProceed(data['errors'])",
                 "operation_name = cls.__name__.replace('find', '').replace('get', '')",
                 "singular_str = operation_name[:-1] if operation_name.endswith('s') else operation_name",
                 "snake_case_str = re.sub(r'(?<!^)(?=[A-Z])', '_', singular_str).lower()",
                 "return DataclassesRenderer.relayify(data, snake_case_str) if auth.is_standard_call() else DataclassesRenderer.simplify(data, snake_case_str)">>,
          "entry_body")

RenderEntryPoints(parsed_op, ind) ==
    <<Line(ind, "@classmethod", "entry", parsed_op.name),
      Line(ind, "def execute(cls, " \o VarsArgsStr(parsed_op.variables) \o CallbackParam \o "):",
           "entry", parsed_op.name),
      Line(ind + 1, "client = Client('" \o Config.endpoint \o "')", "entry_body", "")>>
    \o EntryBody(parsed_op, ind + 1,
         "response_text = client.call(cls.__QUERY__, variables=variables, on_before_callback=on_before_callback)")
    \o <<Line(ind, "", "entry", ""),
         Line(ind, "@classmethod", "entry", parsed_op.name),
         Line(ind, "async def execute_async(cls, " \o VarsArgsStr(parsed_op.variables)
                      \o CallbackParam \o "):", "entry", parsed_op.name),
         Line(ind + 1, "client = AsyncIOClient('" \o Config.endpoint \o "')", "entry_body", "")>>
    \o EntryBody(parsed_op, ind + 1,
         "response_text = await client.call(cls.__QUERY__, variables=variables, on_before_callback=on_before_callback)")
    \o Lines(ind, <<"", "">>, "entry")

\* the operation's children, rendered inside the operation's class
OperationChildren(parsed_query, parsed_op, ind) ==
    Flatten([i \in 1..Len(parsed_op.children) |->
               RenderObject(parsed_query, parsed_op.children[i], ind)])

\* the fields of the operation's class: data and errors
OperationFields(parsed_op, ind) ==
    <<Line(ind, "", "blank", parsed_op.name),
      Line(ind, "data: " \o parsed_op.name \o "Data = None", "op_data", parsed_op.name),
      Line(ind, "errors: Any = None", "op_errors", parsed_op.name),
      Line(ind, "", "blank", parsed_op.name)>>

OperationHead(parsed_query, parsed_op, ind) ==
    <<Line(ind, "@dataclass_json", "decorator", parsed_op.name),
      Line(ind, "@dataclass", "decorator", parsed_op.name),
      Line(ind, "class " \o parsed_op.name \o ":", "op_open", parsed_op.name),
      Line(ind + 1, "__QUERY__ = \"\"\"", "op_query", parsed_op.name),
      Line(ind + 1, parsed_query.query, "op_query", parsed_op.name),
      Line(ind + 1, "\"\"\"", "op_query", parsed_op.name),
      Line(ind + 1, "", "blank", parsed_op.name)>>

\* faulty variant: the data / errors fields are written before the children
RenderOperationFieldsFirst(parsed_query, parsed_op, ind) ==
    OperationHead(parsed_query, parsed_op, ind)
    \o OperationFields(parsed_op, ind + 1)
    \o OperationChildren(parsed_query, parsed_op, ind + 1)
    \o RenderEntryPoints(parsed_op, ind + 1)

RenderOperation(parsed_query, parsed_op, ind) ==
    OperationHead(parsed_query, parsed_op, ind)
    \o OperationChildren(parsed_query, parsed_op, ind + 1)
    \o OperationFields(parsed_op, ind + 1)
    \o RenderEntryPoints(parsed_op, ind + 1)

\* one iteration of `for obj in sorted_objects`
RenderTop(parsed_query, obj) ==
    IF IsParsedObject(obj) THEN RenderObject(parsed_query, obj, 0)
    ELSE IF IsParsedOperation(obj) THEN RenderOperation(parsed_query, obj, 0)
    ELSE <<>>

render(parsed_query) ==
    RenderPreamble
    \o RenderDatetimeField
    \o (IF parsed_query.enums # <<>>
        THEN RenderEnumField
             \o Flatten([i \in 1..Len(parsed_query.enums) |->
                           RenderEnum(parsed_query.enums[i])])
        ELSE <<>>)
    \o Flatten([i \in 1..Len(parsed_query.objects) |->
                  RenderTop(parsed_query, SortObjects(parsed_query.objects)[i])])

-----------------------------------------------------------------------------
(* The queries render is applied to *)

\* most top-level objects and operations in one ParsedQuery
MaxTop == 3

EnumColor == ParsedEnum("Color", <<<<"RED", StrV("red")>>, <<"GREEN", StrV("green")>>>>)
EnumSize == ParsedEnum("Size", <<<<"S", IntV(1)>>, <<"L", IntV(2)>>>>)

EnumLists == {<<>>, <<EnumColor>>, <<EnumSize, EnumColor>>}

\* field lists of the objects: none, one, and a mixed list
FieldLists ==
    {<<>>,
     <<ParsedField("id", "int", FALSE, Null)>>,
     <<ParsedField("note", "str", TRUE, Null),
       ParsedField("created", "DateTime", FALSE, Null),
       ParsedField("status", "Color", FALSE, Null),
       ParsedField("id", "int", FALSE, Null)>>}

\* what may stand at position i of ParsedQuery.objects, its names made
\* unique by the position
TopChoices(i, fields) ==
    LET n == IntToStr(i)
        frag == "Frag" \o n
        op == "Op" \o n
    IN  {ParsedObject(frag, <<>>, <<>>, <<>>),
         ParsedObject(frag, <<"Shared", "Node">>, <<>>, fields),
         ParsedObject(frag, <<>>,
             <<ParsedObject(frag \o "Child", <<>>,
                   <<ParsedObject(frag \o "ChildNode", <<>>, <<>>, fields)>>, fields),
               ParsedObject(frag \o "Other", <<>>, <<>>, <<>>)>>,
             fields),
         ParsedOperation(op, OpVariables,
             <<ParsedObject(op \o "Data", <<>>,
                   <<ParsedObject(op \o "DataItem", <<>>, <<>>, fields)>>, fields)>>),
         ParsedOperation(op, <<>>,
             <<ParsedObject(op \o "Data", <<>>, <<>>, <<>>)>>)}

ObjectLists(fields) ==
    UNION {{s \in [1..m -> UNION {TopChoices(i, fields) : i \in 1..m}] :
               \A i \in 1..m : s[i] \in TopChoices(i, fields)} : m \in 0..MaxTop}

Queries ==
    {ParsedQuery("query Q { item { id } }", e, o) :
        e \in EnumLists, o \in UNION {ObjectLists(f) : f \in FieldLists}}

-----------------------------------------------------------------------------
(* Specification RenderSpec: render applied to a ParsedQuery *)

RenderInit ==
    /\ ir \in Queries
    /\ out = <<>>
    /\ pc = "parsed"
    /\ response = Null
    /\ key = ""
    /\ arg = Null
    /\ result = Null
    /\ ex = NoCall

Render ==
    /\ pc = "parsed"
    /\ out' = render(ir)
    /\ pc' = "rendered"
    /\ UNCHANGED <<response, key, arg, result, ex, ir>>

RenderNext == Render

RenderSpec == RenderInit /\ [][RenderNext]_vars

(* Claims about the order of the emitted output, checked under RenderSpec *)

\* the names of the top-level types, in the order their class lines appear
TopLevelTypes ==
    LET IsTop(l) == l.ind = 0 /\ l.role \in {"enum_open", "open", "op_open"}
        tops == SelectSeq(out, IsTop)
    IN  [i \in 1..Len(tops) |-> tops[i].owner]

NamesOf(s) == [i \in 1..Len(s) |-> s[i].name]

\* the kinds of the top-level types, in the order their class lines appear
TopLevelKinds ==
    LET IsTop(l) == l.ind = 0 /\ l.role \in {"enum_open", "open", "op_open"}
        tops == SelectSeq(out, IsTop)
    IN  [i \in 1..Len(tops) |-> tops[i].role]

\* C9: render emits all enum types first, then every ParsedObject in its IR
\* order, then every ParsedOperation in its IR order; no operation comes
\* before an object, no object or operation before an enum.
C9_TopLevelOrder ==
    pc = "rendered" =>
        /\ TopLevelTypes = NamesOf(ir.enums)
                              \o NamesOf(SelectSeq(ir.objects, IsParsedObject))
                              \o NamesOf(SelectSeq(ir.objects, IsParsedOperation))
        /\ \A i, j \in 1..Len(TopLevelKinds) :
              i < j => /\ TopLevelKinds[i] = "op_open" => TopLevelKinds[j] = "op_open"
                       /\ TopLevelKinds[j] = "enum_open" => TopLevelKinds[i] = "enum_open"

C9_Witness ==
    /\ pc = "rendered"
    /\ Len(ir.enums) = 2
    /\ Len(ir.objects) = 3
    /\ IsParsedOperation(ir.objects[1])
    /\ IsParsedObject(ir.objects[2])
    /\ IsParsedOperation(ir.objects[3])
    /\ TopLevelTypes = <<"Size", "Color", "Frag2", "Op1", "Op3">>

\* every object of the query, nested ones included, and every operation
RECURSIVE NodesOf(_)
NodesOf(obj) ==
    {obj} \cup UNION {NodesOf(obj.children[i]) : i \in 1..Len(obj.children)}

AllNodes == UNION {NodesOf(ir.objects[i]) : i \in 1..Len(ir.objects)}

\* where the line of the given role and owner stands in the output
Pos(role, owner) ==
    CHOOSE i \in 1..Len(out) : out[i].role = role /\ out[i].owner = owner

Emitted(role, owner) ==
    \E i \in 1..Len(out) : out[i].role = role /\ out[i].owner = owner

\* the child's declaration lies inside the parent's and is complete before
\* any field of the parent is written
ChildBeforeFields(parent, child, open) ==
    /\ Emitted(open, parent.name)
    /\ Emitted("open", child.name)
    /\ Emitted("close", child.name)
    /\ Pos(open, parent.name) < Pos("open", child.name)
    /\ Pos("open", child.name) < Pos("close", child.name)
    /\ \A j \in 1..Len(out) :
          (out[j].owner = parent.name /\ out[j].role \in {"field", "op_data", "op_errors"})
              => Pos("close", child.name) < j

\* C10: every object's child declarations are emitted before any of the
\* object's own fields and before the object's declaration closes; every
\* operation's nested "<OperationName>Data" object is emitted, complete,
\* before the operation's data field that references it.
C10_ChildrenFirst ==
    pc = "rendered" =>
        \A n \in AllNodes :
            /\ IsParsedObject(n) =>
                  \A i \in 1..Len(n.children) :
                      /\ ChildBeforeFields(n, n.children[i], "open")
                      /\ Pos("close", n.children[i].name) < Pos("close", n.name)
            /\ IsParsedOperation(n) =>
                  /\ \E i \in 1..Len(n.children) : n.children[i].name = n.name \o "Data"
                  /\ \A i \in 1..Len(n.children) :
                        ChildBeforeFields(n, n.children[i], "op_open")
                  /\ Pos("close", n.name \o "Data") < Pos("op_data", n.name)
                  /\ out[Pos("op_data", n.name)].text = "data: " \o n.name \o "Data = None"

C10_Witness ==
    /\ pc = "rendered"
    /\ \E n \in AllNodes :
          /\ IsParsedObject(n)
          /\ Len(n.fields) > 1
          /\ \E i \in 1..Len(n.children) : n.children[i].children # <<>>
    /\ \E n \in AllNodes : IsParsedOperation(n) /\ Emitted("field", n.name \o "Data")

-----------------------------------------------------------------------------
(* Specification FieldSpec: render applied to objects whose fields range
   over every combination of type and nullability *)

\* most fields in one object
MaxFields == 3

\* an enum whose name is the name of the date-time scalar
EnumDateTime == ParsedEnum("DateTime", <<<<"NOW", StrV("now")>>>>)

FieldEnumLists == {<<>>, <<EnumColor>>, <<EnumColor, EnumDateTime>>}

\* the type, nullability and default a field may have; a field that is not
\* nullable has no default
FieldShapes ==
    {[type |-> "DateTime", nullable |-> FALSE, default_value |-> Null],
     [type |-> "DateTime", nullable |-> TRUE,  default_value |-> Null],
     [type |-> "int",      nullable |-> FALSE, default_value |-> Null],
     [type |-> "int",      nullable |-> TRUE,  default_value |-> Null],
     [type |-> "int",      nullable |-> TRUE,  default_value |-> IntV(0)],
     [type |-> "Color",    nullable |-> FALSE, default_value |-> Null],
     [type |-> "Color",    nullable |-> TRUE,  default_value |-> Null],
     [type |-> "List[user_amazon_association]", nullable |-> FALSE,
      default_value |-> Null]}

\* the fields of one object: their names are unique, f1, f2, ...
FieldSeqs ==
    UNION {{[i \in 1..n |-> ParsedField("f" \o IntToStr(i), sh[i].type,
                                        sh[i].nullable, sh[i].default_value)] :
               sh \in [1..n -> FieldShapes]} : n \in 0..MaxFields}

Reverse(s) == [i \in 1..Len(s) |-> s[Len(s) + 1 - i]]

\* an operation whose Data object has the fields in reverse order, and an
\* object with a child and the fields in order
FieldObjects(fields) ==
    <<ParsedOperation("Op", <<>>,
          <<ParsedObject("OpData", <<>>, <<>>, Reverse(fields))>>),
      ParsedObject("Item", <<>>,
          <<ParsedObject("ItemChild", <<>>, <<>>, <<>>)>>, fields)>>

FieldQueries ==
    {ParsedQuery("query Q { item { id } }", e, FieldObjects(f)) :
        e \in FieldEnumLists, f \in FieldSeqs}

FieldInit ==
    /\ ir \in FieldQueries
    /\ out = <<>>
    /\ pc = "parsed"
    /\ response = Null
    /\ key = ""
    /\ arg = Null
    /\ result = Null
    /\ ex = NoCall

FieldSpec == FieldInit /\ [][RenderNext]_vars

(* Claims about the fields of an object, checked under FieldSpec *)

\* the objects of the query, nested ones included
ObjectNodes == {n \in AllNodes : IsParsedObject(n)}

\* the field lines written for the object, in the order of the output
FieldLines(obj) ==
    LET IsFieldOf(l) == l.role = "field" /\ l.owner = obj.name
    IN  SelectSeq(out, IsFieldOf)

\* the name a field line declares: the text before the colon
DeclaredName(l) == Split(l.text, ":")[1]

\* the annotation of a field line: what follows "<name>: <type> "
AnnotationOf(l) ==
    LET words == Split(l.text, " ")
    IN  Join(SubSeq(words, 3, Len(words)), " ")

\* the line written for the field
LineOf(obj, f) ==
    LET ls == FieldLines(obj)
    IN  ls[CHOOSE i \in 1..Len(ls) : DeclaredName(ls[i]) = f.name]

HasLine(obj, f) ==
    \E i \in 1..Len(FieldLines(obj)) : DeclaredName(FieldLines(obj)[i]) = f.name

IsEnumTyped(f) == \E i \in 1..Len(ir.enums) : ir.enums[i].name = f.type

IsDateTime(f) == f.type = "DateTime"

IsAssociationList(f) ==
    f.type \in {"List[user_amazon_association]", "List[user_ebay_association]"}

EnumCodec(f) == "= enum_field(" \o f.type \o ")"

DateTimeCodec == "= DATETIME_FIELD"

InlinedDefault(f) == "= " \o Format(f.default_value)

\* the annotation as the claim words it: chosen by the type, an enum type
\* first, then the date-time type, then nullability
AnnotationByType(f) ==
    IF IsEnumTyped(f) THEN EnumCodec(f)
    ELSE IF IsDateTime(f) THEN DateTimeCodec
    ELSE IF f.nullable THEN InlinedDefault(f)
    ELSE ""

\* the annotation by the precedence render applies: the date-time type
\* first, then nullability or an association list type, then an enum type
AnnotationByPrecedence(f) ==
    IF IsDateTime(f) THEN DateTimeCodec
    ELSE IF f.nullable \/ IsAssociationList(f) THEN InlinedDefault(f)
    ELSE IF IsEnumTyped(f) THEN EnumCodec(f)
    ELSE ""

\* C11 as stated: every field's annotation is chosen by its type: an
\* enum-typed field gets the enum codec of its enum, a date-time field the
\* fixed date-time codec, a nullable field its default value inlined, any
\* other field none; also for a field both enum-typed and nullable.
C11_Original ==
    pc = "rendered" =>
        \A n \in ObjectNodes : \A i \in 1..Len(n.fields) :
            /\ HasLine(n, n.fields[i])
            /\ AnnotationOf(LineOf(n, n.fields[i])) = AnnotationByType(n.fields[i])

\* C11 (amended): every field's annotation is the fixed date-time codec if
\* its type is the date-time scalar; otherwise its default value inlined if
\* it is nullable or of an association list type; otherwise the enum codec
\* keyed by its enum's name if it is enum-typed; otherwise none.  A field
\* both enum-typed and nullable gets its default value, not the enum codec.
C11_Annotation ==
    pc = "rendered" =>
        \A n \in ObjectNodes : \A i \in 1..Len(n.fields) :
            /\ HasLine(n, n.fields[i])
            /\ AnnotationOf(LineOf(n, n.fields[i])) = AnnotationByPrecedence(n.fields[i])
            /\ (IsEnumTyped(n.fields[i]) /\ n.fields[i].nullable /\ ~IsDateTime(n.fields[i]))
                  => AnnotationOf(LineOf(n, n.fields[i])) # EnumCodec(n.fields[i])

C11_Witness ==
    /\ pc = "rendered"
    /\ \E n \in ObjectNodes :
          /\ Len(n.fields) = 3
          /\ n.name = "Item"
          /\ IsEnumTyped(n.fields[1]) /\ n.fields[1].nullable /\ ~IsDateTime(n.fields[1])
          /\ LineOf(n, n.fields[1]).text = "f1: Color = None"
          /\ IsEnumTyped(n.fields[2]) /\ ~n.fields[2].nullable
          /\ LineOf(n, n.fields[2]).text = "f2: Color = enum_field(Color)"
          /\ IsDateTime(n.fields[3]) /\ n.fields[3].nullable
          /\ LineOf(n, n.fields[3]).text = "f3: datetime = DATETIME_FIELD"

\* where the field of that name stands in the IR's field list
IndexIn(fields, name) == CHOOSE i \in 1..Len(fields) : fields[i].name = name

\* the object's fields in the order their lines were written
EmittedFields(obj) ==
    [k \in 1..Len(FieldLines(obj)) |->
        obj.fields[IndexIn(obj.fields, DeclaredName(FieldLines(obj)[k]))]]

\* C12: for every object the emitted fields are a permutation of its
\* fields; date-time fields come before all others; within the date-time
\* group and within the other group non-nullable fields come before nullable
\* ones; fields equal under both criteria keep their IR order.
C12_FieldOrder ==
    pc = "rendered" =>
        \A n \in ObjectNodes :
            LET lines == FieldLines(n)
                e == EmittedFields(n)
            IN  /\ Len(lines) = Len(n.fields)
                /\ \A k \in 1..Len(lines) :
                      \E i \in 1..Len(n.fields) : n.fields[i].name = DeclaredName(lines[k])
                /\ \A i \in 1..Len(n.fields) :
                      Cardinality({k \in 1..Len(lines) :
                                      DeclaredName(lines[k]) = n.fields[i].name}) = 1
                /\ \A a, b \in 1..Len(lines) :
                      a < b =>
                         /\ IsDateTime(e[b]) => IsDateTime(e[a])
                         /\ (IsDateTime(e[a]) = IsDateTime(e[b]) /\ e[a].nullable)
                               => e[b].nullable
                         /\ (IsDateTime(e[a]) = IsDateTime(e[b])
                               /\ e[a].nullable = e[b].nullable)
                               => IndexIn(n.fields, e[a].name) < IndexIn(n.fields, e[b].name)

C12_Witness ==
    /\ pc = "rendered"
    /\ \E n \in ObjectNodes :
          /\ n.name = "Item"
          /\ Len(n.fields) = 3
          /\ n.fields[1].nullable /\ ~IsDateTime(n.fields[1])
          /\ IsDateTime(n.fields[2]) /\ n.fields[2].nullable
          /\ n.fields[3].nullable /\ ~IsDateTime(n.fields[3])
          /\ [k \in 1..3 |-> EmittedFields(n)[k].name] = <<"f2", "f1", "f3">>
    /\ \E n \in ObjectNodes :
          /\ n.name = "OpData"
          /\ [k \in 1..3 |-> EmittedFields(n)[k].name] = <<"f2", "f3", "f1">>

====
